---- MODULE Spec2Model ----
(***************************************************************************)
(* Model of backend/langgraph_pipeline.py (ProductImagePipeline) and of    *)
(* the /process-video handler of backend/main.py.                          *)
(*                                                                         *)
(* One run of process_video threads one State dictionary through the five  *)
(* nodes of the compiled workflow.  The collaborators (yt_dlp, cv2, PIL,   *)
(* the Gemini model) are the environment: each call either returns one of  *)
(* a small set of values or raises.                                        *)
(*                                                                         *)
(* Floats are kept exact: a frame rate is a number of tenths of a frame    *)
(* per second (fps = 15 is 1.5 frames per second), a confidence is a       *)
(* number of tenths, and a timestamp frame_number / fps is the fraction    *)
(* [num, den].                                                             *)
(***************************************************************************)
EXTENDS Integers, Sequences, FiniteSets, TLC

VARIABLES
    pc,             \* node the workflow is at: START, a node name, END, returned
    i,              \* 1-based position of the running node's for-loop
    url,            \* state["url"]
    video_id,       \* state["video_id"]
    videoFile,      \* os.path.exists(video_path) for this run's video path
    fps,            \* cap.get(CAP_PROP_FPS), in tenths; NotRead before the read
    frame_count,    \* number of frames cap.read() delivers; NotRead before
    frame_interval, \* local frame_interval of _extract_frames; NotRead before
    frames,         \* state["frames"]
    products,       \* state["products"]
    error,          \* state["error"]
    result,         \* what process_video returned
    response,       \* what the /process-video handler returned
    calls,          \* number of collaborator calls made so far
    entered,        \* nodes entered, in order
    returned,       \* nodes that returned, in order
    errorLog,       \* every value written to state["error"], in order
    snap,           \* frames, products and calls when error was first set
    responses,      \* texts the model returned to _identify_products, in order
    store,          \* identifiers whose video file exists in the output directory
    fetches,        \* every call of the video fetcher, over all runs, in order
    run,            \* number of the current run of process_video
    written         \* image paths written during the current run, in order

vars == <<pc, i, url, video_id, videoFile, fps, frame_count, frame_interval,
          frames, products, error, result, response, calls, entered,
          returned, errorLog, snap, responses, store, fetches, run, written>>

----------------------------------------------------------------------------
(* Bounds of the model *)

MaxFrameCount == 3      \* most frames a decoded stream delivers
MaxProbeFrames == 3     \* most frames of a State handed to one node directly
MaxRuns == 3            \* most runs of process_video over one output directory

(* Representation of floats *)
FpsDen == 10            \* fps values are tenths of a frame per second
FpsValues == {0, 4, 9, 10, 13}  \* 0 (stream not opened), 0.4, 0.9, 1.0, 1.3

(* Program constants, in the units above *)
SampleSeconds == 2      \* int(fps * 2)
ConfThreshold == 5      \* confidence > 0.5
FallbackConfidence == 6 \* confidence=0.6
NumStyles == 3          \* len(styles)
DescriptionLimit == 200 \* response.text[:200]

None == "<None>"        \* the value None of state["error"]
NoPath == <<>>          \* the empty string of a path field
NotRead == 0 - 1
NoResult == [pending |-> TRUE]

(* truth value of a string or None, as in `if result.get("error")` *)
Truthy(e) == e # None /\ e # ""

Abs(x) == IF x < 0 THEN 0 - x ELSE x
Least(S) == CHOOSE k \in S : \A j \in S : k <= j
Greatest(S) == CHOOSE k \in S : \A j \in S : k >= j

----------------------------------------------------------------------------
(* Strings that the code takes apart are sequences of characters. *)

RECURSIVE Replace(_, _, _)
Replace(s, old, new) ==
    IF s = <<>> THEN <<>>
    ELSE <<IF Head(s) = old THEN new ELSE Head(s)>> \o Replace(Tail(s), old, new)

NamePhone == <<"p">>
NameRedCup == <<"r", " ", "c">>
NameDetectedProduct == <<"D", " ", "P">>

(* Timestamps: frame_number / fps with fps in tenths *)
Timestamp(frame_number, f) == [num |-> frame_number * FpsDen, den |-> f]

IntOf(t) == t.num \div t.den

WithinToleranceWide(a, b) ==
    Abs(a.num * b.den - b.num * a.den) < 2 * a.den * b.den

(* abs(frame["timestamp"] - product.timestamp) < 1.0 *)
WithinTolerance(a, b) ==
    Abs(a.num * b.den - b.num * a.den) < a.den * b.den

(* Output paths: <<kind, key, style index, number>> *)
FramePath(vid, frame_number) == <<"frame", vid, 0, frame_number>>
SegmentedPath(name, t) == <<"segmented", Replace(name, " ", "_"), 0, IntOf(t)>>
EnhancedPath(name, style, t) == <<"enhanced", Replace(name, " ", "_"), style, IntOf(t)>>

----------------------------------------------------------------------------
(* _extract_video_id.  A URL is a sequence of tokens; the tokens are the   *)
(* pieces the code searches for and splits at, and identifier characters.  *)

Find(s, p) ==
    IF \E k \in 1..(Len(s) - Len(p) + 1) : SubSeq(s, k, k + Len(p) - 1) = p
    THEN CHOOSE k \in 1..(Len(s) - Len(p) + 1) :
            /\ SubSeq(s, k, k + Len(p) - 1) = p
            /\ \A j \in 1..(k-1) : SubSeq(s, j, j + Len(p) - 1) # p
    ELSE 0

Contains(s, p) == Find(s, p) # 0

(* s.split(p)[0] and s.split(p)[1], the latter only where p occurs in s *)
Before(s, p) == IF Contains(s, p) THEN SubSeq(s, 1, Find(s, p) - 1) ELSE s
After(s, p) == SubSeq(s, Find(s, p) + Len(p), Len(s))
SplitFirst(s, p) == Before(s, p)
SplitSecond(s, p) == Before(After(s, p), p)

UnknownId == <<"unknown">>

ExtractVideoIdKeepParams(u) ==
    IF Contains(u, <<"youtube.com/", "watch?", "v=">>)
    THEN SplitSecond(u, <<"v=">>)
    ELSE IF Contains(u, <<"youtube.com/", "shorts/">>)
    THEN SplitFirst(SplitSecond(u, <<"shorts/">>), <<"?">>)
    ELSE IF Contains(u, <<"youtu.be/">>)
    THEN SplitFirst(SplitSecond(u, <<"youtu.be/">>), <<"?">>)
    ELSE UnknownId

ExtractVideoId(u) ==
    IF Contains(u, <<"youtube.com/", "watch?", "v=">>)
    THEN SplitFirst(SplitSecond(u, <<"v=">>), <<"&">>)
    ELSE IF Contains(u, <<"youtube.com/", "shorts/">>)
    THEN SplitFirst(SplitSecond(u, <<"shorts/">>), <<"?">>)
    ELSE IF Contains(u, <<"youtu.be/">>)
    THEN SplitFirst(SplitSecond(u, <<"youtu.be/">>), <<"?">>)
    ELSE UnknownId

UrlWatch == <<"https://", "youtube.com/", "watch?", "v=", "a", "b", "&", "t=5">>
UrlOther == <<"https://", "example.com/", "a">>
Urls == {UrlWatch}

(* The URL shapes: identifiers of up to two characters, with and without   *)
(* what may follow the identifier.                                         *)
Ids == {<<>>} \cup {<<c>> : c \in {"a", "b"}}
           \cup {<<c, d>> : c, d \in {"a", "b"}}
Params == {<<>>, <<"&", "t=5">>}
Queries == {<<>>, <<"?", "x=1">>}

WatchUrl(id, params) ==
    <<"https://", "youtube.com/", "watch?", "v=">> \o id \o params
ShortsUrl(id, query) == <<"https://", "youtube.com/", "shorts/">> \o id \o query
ShortLinkUrl(id, query) == <<"https://", "youtu.be/">> \o id \o query
UnmatchedUrls ==
    {<<"https://", "example.com/">> \o id : id \in Ids}
      \cup {<<"https://", "example.com/", "watch?", "v=">> \o id : id \in Ids}
      \cup {<<"https://", "youtube.com/", "watch?", "t=5", "&", "v=">> \o id : id \in Ids}

UrlSpace ==
    {WatchUrl(id, p) : id \in Ids, p \in Params}
      \cup {ShortsUrl(id, q) : id \in Ids, q \in Queries}
      \cup {ShortLinkUrl(id, q) : id \in Ids, q \in Queries}
      \cup UnmatchedUrls

----------------------------------------------------------------------------
(* The workflow graph of _create_workflow *)

EntryPoint == "extract_video"

StageOrder == <<"extract_video", "extract_frames", "identify_products",
                "segment_products", "enhance_products">>

EdgeSkip(n) ==
    CASE n = "extract_video"     -> "extract_frames"
      [] n = "extract_frames"    -> "segment_products"
      [] n = "identify_products" -> "segment_products"
      [] n = "segment_products"  -> "enhance_products"
      [] n = "enhance_products"  -> "END"

Edge(n) ==
    CASE n = "extract_video"     -> "extract_frames"
      [] n = "extract_frames"    -> "identify_products"
      [] n = "identify_products" -> "segment_products"
      [] n = "segment_products"  -> "enhance_products"
      [] n = "enhance_products"  -> "END"

(* The node returns and the graph moves along its edge. *)
Advance(n) ==
    /\ pc' = Edge(n)
    /\ i' = 1
    /\ returned' = Append(returned, n)
    /\ entered' = IF Edge(n) = "END" THEN entered ELSE Append(entered, Edge(n))

(* state["error"] = msg in an except clause *)
SetError(msg) ==
    /\ error' = msg
    /\ errorLog' = Append(errorLog, msg)
    /\ snap' = IF snap = <<>>
               THEN <<[frames |-> frames', products |-> products', calls |-> calls']>>
               ELSE snap

NoError == UNCHANGED <<error, errorLog, snap>>

FileExistsNever(files, vid) == FALSE

(* os.path.exists(video_path), the path being output/video_<video_id>.mp4 *)
FileExists(files, vid) == vid \in files

(* one call ydl.download([url]) *)
Fetch(n, vid, ok) == [run |-> n, video_id |-> vid, ok |-> ok]

----------------------------------------------------------------------------
(* The State process_video builds for a URL, in run n over an output       *)
(* directory holding the video files of `files`                            *)
StartOfRun(u, files, n, log) ==
    /\ pc = "START"
    /\ i = 1
    /\ url = u
    /\ video_id = <<>>
    /\ store = files
    /\ videoFile = FileExists(files, ExtractVideoId(u))
    /\ fetches = log
    /\ run = n
    /\ written = <<>>
    /\ fps = NotRead
    /\ frame_count = NotRead
    /\ frame_interval = NotRead
    /\ frames = <<>>
    /\ products = <<>>
    /\ error = None
    /\ result = NoResult
    /\ response = NoResult
    /\ calls = 0
    /\ entered = <<>>
    /\ returned = <<>>
    /\ errorLog = <<>>
    /\ snap = <<>>
    /\ responses = <<>>

Init ==
    \E u \in Urls :
        \E files \in {{}, {ExtractVideoId(u)}} : StartOfRun(u, files, 1, <<>>)

(* process_video: build the initial State and invoke the workflow. *)
Invoke ==
    /\ pc = "START"
    /\ pc' = EntryPoint
    /\ entered' = <<EntryPoint>>
    /\ UNCHANGED <<i, url, video_id, videoFile, fps, frame_count,
                   frame_interval, frames, products, error, result, response,
                   calls, returned, errorLog, snap, responses>>
    /\ UNCHANGED <<store, fetches, run, written>>

----------------------------------------------------------------------------
(* _extract_video *)

ExtractVideoCached ==
    /\ pc = "extract_video"
    /\ videoFile
    /\ video_id' = ExtractVideoId(url)
    /\ Advance("extract_video")
    /\ NoError
    /\ UNCHANGED <<url, videoFile, fps, frame_count, frame_interval, frames,
                   products, result, response, calls, responses>>
    /\ UNCHANGED <<store, fetches, run, written>>

ExtractVideoFetched ==
    /\ pc = "extract_video"
    /\ ~videoFile
    /\ video_id' = ExtractVideoId(url)
    /\ calls' = calls + 1
    /\ videoFile' = TRUE
    /\ store' = store \cup {ExtractVideoId(url)}
    /\ fetches' = Append(fetches, Fetch(run, ExtractVideoId(url), TRUE))
    /\ Advance("extract_video")
    /\ NoError
    /\ UNCHANGED <<url, fps, frame_count, frame_interval, frames, products,
                   result, response, responses, run, written>>

ExtractVideoRaise ==
    /\ pc = "extract_video"
    /\ ~videoFile
    /\ video_id' = ExtractVideoId(url)
    /\ calls' = calls + 1
    /\ fetches' = Append(fetches, Fetch(run, ExtractVideoId(url), FALSE))
    /\ UNCHANGED <<url, videoFile, fps, frame_count, frame_interval, frames,
                   products, result, response, responses, store, run, written>>
    /\ SetError("Video extraction failed")
    /\ Advance("extract_video")

----------------------------------------------------------------------------
(* _extract_frames *)

(* frame_interval = int(fps * 2) *)
FrameInterval(f) == (SampleSeconds * f) \div FpsDen

FrameRecord(vid, frame_number, f) ==
    [frame_number |-> frame_number,
     timestamp |-> Timestamp(frame_number, f),
     image_path |-> FramePath(vid, frame_number),
     products_detected |-> <<>>]

IsSampledEveryFrame(frame_number, interval) == TRUE

IsSampled(frame_number, interval) == frame_number % interval = 0

(* the while loop, from frame_number on, over a stream of n frames: the    *)
(* frames it passes over are skipped in one step                           *)
RECURSIVE SampleFrom(_, _, _, _, _)
SampleFrom(frame_number, n, interval, f, vid) ==
    LET kept == {m \in frame_number..(n - 1) : IsSampled(m, interval)} IN
    IF kept = {} THEN <<>>
    ELSE <<FrameRecord(vid, Least(kept), f)>>
             \o SampleFrom(Least(kept) + 1, n, interval, f, vid)

(* the paths cv2.imwrite wrote for a list of frame records *)
ImagePaths(fs) == [k \in 1..Len(fs) |-> fs[k].image_path]

(* What the decoder reports for the file at video_path: nothing opens      *)
(* without a file, and then the frame rate reads 0.                        *)
ExtractFramesOf(f, n) ==
    /\ pc = "extract_frames"
    /\ fps' = f
    /\ frame_count' = n
    /\ calls' = calls + 1
    /\ UNCHANGED <<url, video_id, videoFile, products, result, response,
                   responses, store, fetches, run>>
    /\ IF f = 0
       THEN \* duration = frame_count / fps raises ZeroDivisionError
            /\ UNCHANGED <<frame_interval, frames, written>>
            /\ SetError("Frame extraction failed")
       ELSE /\ frame_interval' = FrameInterval(f)
            /\ IF n > 0 /\ FrameInterval(f) = 0
               THEN \* frame_number % frame_interval raises ZeroDivisionError
                    /\ UNCHANGED <<frames, written>>
                    /\ SetError("Frame extraction failed")
               ELSE /\ frames' = SampleFrom(0, n, FrameInterval(f), f, video_id)
                    /\ written' = written \o ImagePaths(
                           SampleFrom(0, n, FrameInterval(f), f, video_id))
                    /\ NoError
    /\ Advance("extract_frames")

ExtractFrames ==
    IF videoFile
    THEN \E f \in FpsValues, n \in 0..MaxFrameCount :
            (f = 0 => n = 0) /\ ExtractFramesOf(f, n)
    ELSE ExtractFramesOf(0, 0)

(* cv2.imwrite (or the decoder) raises while the loop runs: state["frames"] *)
(* is assigned only after the loop.                                        *)
ExtractFramesRaise ==
    /\ pc = "extract_frames"
    /\ videoFile
    /\ \E f \in FpsValues \ {0}, n \in 1..MaxFrameCount :
          /\ FrameInterval(f) > 0
          /\ fps' = f
          /\ frame_count' = n
          /\ frame_interval' = FrameInterval(f)
          /\ \E done \in 0..Len(SampleFrom(0, n, FrameInterval(f), f, video_id)) :
                written' = written \o SubSeq(ImagePaths(
                    SampleFrom(0, n, FrameInterval(f), f, video_id)), 1, done)
    /\ calls' = calls + 1
    /\ UNCHANGED <<url, video_id, videoFile, frames, products, result,
                   response, responses, store, fetches, run>>
    /\ SetError("Frame extraction failed")
    /\ Advance("extract_frames")

----------------------------------------------------------------------------
(* _identify_products *)

AllKeys == {"name", "confidence", "description", "is_good_frame"}

Text(id, len) == [id |-> id, len |-> len]

(* text[:n] *)
Slice(t, n) == [t EXCEPT !.len = IF t.len < n THEN t.len ELSE n]

Candidate(keys, name, confidence, good) ==
    [keys |-> keys, name |-> name, confidence |-> confidence,
     description |-> Text("d", 1), is_good_frame |-> good]

(* product.get(key, default) *)
Get(c, key, default) == IF key \in c.keys THEN c[key] ELSE default

CGood9 == Candidate(AllKeys, NamePhone, 9, TRUE)
CGood6 == Candidate(AllKeys, NameRedCup, 6, TRUE)
CEdge5 == Candidate(AllKeys, NamePhone, 5, TRUE)
CNotGood == Candidate(AllKeys, NamePhone, 9, FALSE)
CNoFlag == Candidate(AllKeys \ {"is_good_frame"}, NamePhone, 9, FALSE)
CNoName == Candidate(AllKeys \ {"name"}, <<>>, 9, TRUE)
CGood8 == Candidate(AllKeys, NamePhone, 8, TRUE)

(* response.text: JSON for an object with a products list, JSON for        *)
(* something that is not an object, or text that json.loads rejects.       *)
JsonObject(cands) ==
    [kind |-> "object", products |-> cands, keyword |-> FALSE, text |-> Text("json", 40)]
JsonArray ==
    [kind |-> "array", products |-> <<>>, keyword |-> FALSE, text |-> Text("json", 2)]
PlainText(keyword, len) ==
    [kind |-> "text", products |-> <<>>, keyword |-> keyword, text |-> Text("raw", len)]

RNone == JsonObject(<<>>)
RGood == JsonObject(<<CGood9>>)
RRejected == JsonObject(<<CEdge5, CNotGood, CNoFlag>>)

Responses ==
    {RNone, RGood,
     RRejected,
     JsonObject(<<CGood9, CGood6>>), JsonObject(<<CGood6, CNoName>>),
     JsonObject(<<CGood9, CGood8>>),
     JsonArray, PlainText(TRUE, 250), PlainText(FALSE, 3)}

ProductInfo(name, confidence, description, timestamp) ==
    [name |-> name, confidence |-> confidence, description |-> description,
     timestamp |-> timestamp, frame_image_path |-> NoPath,
     segmented_image_path |-> NoPath, enhanced_images |-> <<>>]

AcceptedAtThreshold(c) ==
    Get(c, "is_good_frame", FALSE) /\ Get(c, "confidence", 0) >= ConfThreshold

(* product.get("is_good_frame", False) and product.get("confidence", 0) > 0.5 *)
Accepted(c) ==
    Get(c, "is_good_frame", FALSE) /\ Get(c, "confidence", 0) > ConfThreshold

(* product["name"], product["confidence"], product["description"] *)
HasFields(c) == {"name", "confidence", "description"} \subseteq c.keys

(* The for loop over result["products"]: the products appended, and        *)
(* whether a KeyError ended the loop.                                      *)
RECURSIVE Detect(_, _)
Detect(cands, ts) ==
    IF cands = <<>> THEN [appended |-> <<>>, raised |-> FALSE]
    ELSE LET c == Head(cands) IN
         IF ~Accepted(c) THEN Detect(Tail(cands), ts)
         ELSE IF ~HasFields(c) THEN [appended |-> <<>>, raised |-> TRUE]
         ELSE LET rest == Detect(Tail(cands), ts) IN
              [appended |-> <<ProductInfo(c.name, c.confidence, c.description, ts)>>
                               \o rest.appended,
               raised |-> rest.raised]

FallbackUnsliced(r, ts) ==
    IF r.keyword
    THEN <<ProductInfo(NameDetectedProduct, FallbackConfidence, r.text, ts)>>
    ELSE <<>>

(* the except json.JSONDecodeError branch *)
Fallback(r, ts) ==
    IF r.keyword
    THEN <<ProductInfo(NameDetectedProduct, FallbackConfidence,
                       Slice(r.text, DescriptionLimit), ts)>>
    ELSE <<>>

(* The body of `for frame_data in state["frames"]` for one response *)
Outcome(r, ts) ==
    CASE r.kind = "object" -> Detect(r.products, ts)
      [] r.kind = "array"  -> [appended |-> <<>>, raised |-> TRUE]
      [] r.kind = "text"   -> [appended |-> Fallback(r, ts), raised |-> FALSE]

DetectedRefsFirstOnly(n, base) == [k \in 1..(IF n > 1 THEN 1 ELSE n) |-> base + k]

(* the records appended to frame_data["products_detected"]: the n products *)
(* appended to state["products"] after its first `base` entries            *)
DetectedRefs(n, base) == [k \in 1..n |-> base + k]

IdentifyFrameWith(r) ==
    /\ pc = "identify_products"
    /\ i <= Len(frames)
    /\ LET out == Outcome(r, frames[i].timestamp)
           refs == DetectedRefs(Len(out.appended), Len(products))
       IN /\ products' = products \o out.appended
          /\ frames' = [frames EXCEPT ![i].products_detected = @ \o refs]
          /\ calls' = calls + 1
          /\ responses' = Append(responses, r)
          /\ IF out.raised
             THEN /\ SetError("Product identification failed")
                  /\ Advance("identify_products")
             ELSE /\ NoError
                  /\ i' = i + 1
                  /\ UNCHANGED <<pc, entered, returned>>
    /\ UNCHANGED <<url, video_id, videoFile, fps, frame_count, frame_interval,
                   result, response>>
    /\ UNCHANGED <<store, fetches, run, written>>

IdentifyFrame == \E r \in Responses : IdentifyFrameWith(r)

(* Image.open or model.generate_content raises *)
IdentifyRaise ==
    /\ pc = "identify_products"
    /\ i <= Len(frames)
    /\ \E made \in 0..1 : calls' = calls + made
    /\ UNCHANGED <<url, video_id, videoFile, fps, frame_count, frame_interval,
                   frames, products, result, response, responses>>
    /\ SetError("Product identification failed")
    /\ Advance("identify_products")
    /\ UNCHANGED <<store, fetches, run, written>>

IdentifyReturn ==
    /\ pc = "identify_products"
    /\ i > Len(frames)
    /\ Advance("identify_products")
    /\ NoError
    /\ UNCHANGED <<url, video_id, videoFile, fps, frame_count, frame_interval,
                   frames, products, result, response, calls, responses>>
    /\ UNCHANGED <<store, fetches, run, written>>

----------------------------------------------------------------------------
(* _segment_products *)

Matches(fs, p) == {k \in 1..Len(fs) : WithinTolerance(fs[k].timestamp, p.timestamp)}

FindFrameLast(fs, p) ==
    IF Matches(fs, p) = {} THEN 0 ELSE Greatest(Matches(fs, p))

(* the inner for loop with its break: index of frame_data, 0 for None *)
FindFrame(fs, p) ==
    IF Matches(fs, p) = {} THEN 0 ELSE Least(Matches(fs, p))

IsolatedRenamed(p, vid, frame) ==
    [p EXCEPT !.name = Replace(p.name, " ", "_"),
              !.segmented_image_path = SegmentedPath(p.name, p.timestamp),
              !.frame_image_path = FramePath(vid, frame.frame_number)]

(* the two assignments to the product once its frame is found *)
Isolated(p, vid, frame) ==
    [p EXCEPT !.segmented_image_path = SegmentedPath(p.name, p.timestamp),
              !.frame_image_path = FramePath(vid, frame.frame_number)]

SegmentProduct ==
    /\ pc = "segment_products"
    /\ i <= Len(products)
    /\ LET k == FindFrame(frames, products[i]) IN
       IF k = 0
       THEN UNCHANGED <<products, calls, written>>
       ELSE /\ calls' = calls + 1
            /\ written' = Append(written,
                   SegmentedPath(products[i].name, products[i].timestamp))
            /\ products' = [products EXCEPT
                 ![i] = Isolated(products[i], video_id, frames[k])]
    /\ i' = i + 1
    /\ NoError
    /\ UNCHANGED <<pc, entered, returned, url, video_id, videoFile, fps,
                   frame_count, frame_interval, frames, result, response,
                   responses, store, fetches, run>>

(* Image.open, model.generate_content or image.save raises *)
SegmentRaise ==
    /\ pc = "segment_products"
    /\ i <= Len(products)
    /\ FindFrame(frames, products[i]) # 0
    /\ \E made \in 0..1 : calls' = calls + made
    /\ UNCHANGED <<url, video_id, videoFile, fps, frame_count, frame_interval,
                   frames, products, result, response, responses>>
    /\ SetError("Product segmentation failed")
    /\ Advance("segment_products")
    /\ UNCHANGED <<store, fetches, run, written>>

SegmentReturn ==
    /\ pc = "segment_products"
    /\ i > Len(products)
    /\ Advance("segment_products")
    /\ NoError
    /\ UNCHANGED <<url, video_id, videoFile, fps, frame_count, frame_interval,
                   frames, products, result, response, calls, responses>>
    /\ UNCHANGED <<store, fetches, run, written>>

----------------------------------------------------------------------------
(* _enhance_products *)

EnhancedImagesShort(p) ==
    [style \in 1..(NumStyles - 1) |-> EnhancedPath(p.name, style, p.timestamp)]

EnhancedImagesReversed(p) ==
    [style \in 1..NumStyles |->
        EnhancedPath(p.name, NumStyles + 1 - style, p.timestamp)]

(* enhanced_images after the loop over styles *)
EnhancedImages(p) ==
    [style \in 1..NumStyles |-> EnhancedPath(p.name, style, p.timestamp)]

EnhanceProduct ==
    /\ pc = "enhance_products"
    /\ i <= Len(products)
    /\ IF products[i].segmented_image_path = NoPath
       THEN UNCHANGED <<products, calls, written>>
       ELSE /\ calls' = calls + NumStyles
            /\ written' = written \o EnhancedImages(products[i])
            /\ products' = [products EXCEPT
                 ![i].enhanced_images = EnhancedImages(products[i])]
    /\ i' = i + 1
    /\ NoError
    /\ UNCHANGED <<pc, entered, returned, url, video_id, videoFile, fps,
                   frame_count, frame_interval, frames, result, response,
                   responses, store, fetches, run>>

AfterEnhanceRaisePartial(p, saved) ==
    [p EXCEPT !.enhanced_images = SubSeq(EnhancedImages(p), 1, saved)]

(* the product when the loop over styles is left by an exception after    *)
(* `saved` copies: enhanced_images is a local list until the loop is over  *)
AfterEnhanceRaise(p, saved) == p

(* Image.open, model.generate_content or image.save raises, before or     *)
(* within the loop over styles: of `made` calls of the model the last      *)
(* one, or the save after it, raised.                                      *)
EnhanceRaise ==
    /\ pc = "enhance_products"
    /\ i <= Len(products)
    /\ products[i].segmented_image_path # NoPath
    /\ \E made \in 0..NumStyles :
          LET saved == IF made = 0 THEN 0 ELSE made - 1 IN
          /\ calls' = calls + made
          /\ written' = written \o SubSeq(EnhancedImages(products[i]), 1, saved)
          /\ products' = [products EXCEPT
                ![i] = AfterEnhanceRaise(products[i], saved)]
    /\ UNCHANGED <<url, video_id, videoFile, fps, frame_count, frame_interval,
                   frames, result, response, responses, store, fetches, run>>
    /\ SetError("Product enhancement failed")
    /\ Advance("enhance_products")

EnhanceReturn ==
    /\ pc = "enhance_products"
    /\ i > Len(products)
    /\ Advance("enhance_products")
    /\ NoError
    /\ UNCHANGED <<url, video_id, videoFile, fps, frame_count, frame_interval,
                   frames, products, result, response, calls, responses>>
    /\ UNCHANGED <<store, fetches, run, written>>

----------------------------------------------------------------------------
(* process_video of the pipeline and the /process-video handler *)

PipelineResultAlways(e, ps) == [products |-> ps, message |-> Len(ps)]

(* the dictionary process_video returns; message is the count it names *)
PipelineResult(e, ps) ==
    IF Truthy(e) THEN [error |-> e]
    ELSE [products |-> ps, message |-> Len(ps)]

(* VideoProcessingResponse of the handler for a pipeline result *)
HandlerResponse(r) ==
    IF "error" \in DOMAIN r /\ Truthy(r.error)
    THEN [success |-> FALSE, products |-> <<>>, error |-> r.error,
          message |-> "Video processing failed"]
    ELSE [success |-> TRUE, products |-> r.products, error |-> None,
          message |-> Len(r.products)]

ProcessVideoReturn ==
    /\ pc = "END"
    /\ pc' = "returned"
    /\ result' = PipelineResult(error, products)
    /\ response' = HandlerResponse(PipelineResult(error, products))
    /\ UNCHANGED <<i, url, video_id, videoFile, fps, frame_count,
                   frame_interval, frames, products, error, calls, entered,
                   returned, errorLog, snap, responses>>
    /\ UNCHANGED <<store, fetches, run, written>>

----------------------------------------------------------------------------
Next ==
    \/ Invoke
    \/ ExtractVideoCached
    \/ ExtractVideoFetched
    \/ ExtractVideoRaise
    \/ ExtractFrames
    \/ ExtractFramesRaise
    \/ IdentifyFrame
    \/ IdentifyRaise
    \/ IdentifyReturn
    \/ SegmentProduct
    \/ SegmentRaise
    \/ SegmentReturn
    \/ EnhanceProduct
    \/ EnhanceRaise
    \/ EnhanceReturn
    \/ ProcessVideoReturn

Spec == Init /\ [][Next]_vars

----------------------------------------------------------------------------
(* The end-to-end scenario: a 10 second video at 30 frames per second,     *)
(* every collaborator call succeeds, and each detection response either    *)
(* holds no candidate or one candidate of confidence 0.9 on a good frame.  *)

E2EFps == 30 * FpsDen
E2EFrameCount == 10 * 30

E2EExtractFrames ==
    /\ videoFile
    /\ ExtractFramesOf(E2EFps, E2EFrameCount)

E2EIdentifyFrame == \E r \in {RNone, RGood} : IdentifyFrameWith(r)

NextE2E ==
    \/ Invoke
    \/ ExtractVideoCached
    \/ ExtractVideoFetched
    \/ E2EExtractFrames
    \/ E2EIdentifyFrame
    \/ IdentifyReturn
    \/ SegmentProduct
    \/ SegmentReturn
    \/ EnhanceProduct
    \/ EnhanceReturn
    \/ ProcessVideoReturn

SpecE2E == Init /\ [][NextE2E]_vars

----------------------------------------------------------------------------
(* _extract_video alone, over the URL shapes *)

InitUrl ==
    \E u \in UrlSpace :
        \E files \in {{}, {ExtractVideoId(u)}} : StartOfRun(u, files, 1, <<>>)

NextUrl ==
    \/ Invoke
    \/ ExtractVideoCached
    \/ ExtractVideoFetched
    \/ ExtractVideoRaise

SpecUrl == InitUrl /\ [][NextUrl]_vars

----------------------------------------------------------------------------
(* Several runs of process_video, one after the other, over one output     *)
(* directory.  The streams deliver no frame, so the nodes after            *)
(* _extract_frames have nothing to go through.                             *)

UrlShort == ShortLinkUrl(<<"a", "b">>, <<>>)
UrlOtherB == <<"https://", "example.com/", "b">>
RunUrls == {UrlWatch, UrlShort, UrlOther, UrlOtherB}

InitRuns ==
    \E u \in RunUrls, files \in SUBSET {<<"a", "b">>, UnknownId} :
        StartOfRun(u, files, 1, <<>>)

RunsExtractFrames ==
    IF videoFile THEN ExtractFramesOf(FpsDen, 0) ELSE ExtractFramesOf(0, 0)

(* the next call of process_video, once the last one has returned *)
NewRun ==
    /\ pc = "returned"
    /\ run < MaxRuns
    /\ \E u \in RunUrls :
        /\ pc' = "START"
        /\ i' = 1
        /\ url' = u
        /\ video_id' = <<>>
        /\ store' = store
        /\ videoFile' = FileExists(store, ExtractVideoId(u))
        /\ fetches' = fetches
        /\ run' = run + 1
        /\ written' = <<>>
        /\ fps' = NotRead
        /\ frame_count' = NotRead
        /\ frame_interval' = NotRead
        /\ frames' = <<>>
        /\ products' = <<>>
        /\ error' = None
        /\ result' = NoResult
        /\ response' = NoResult
        /\ calls' = 0
        /\ entered' = <<>>
        /\ returned' = <<>>
        /\ errorLog' = <<>>
        /\ snap' = <<>>
        /\ responses' = <<>>

NextRuns ==
    \/ Invoke
    \/ ExtractVideoCached
    \/ ExtractVideoFetched
    \/ ExtractVideoRaise
    \/ RunsExtractFrames
    \/ IdentifyReturn
    \/ SegmentReturn
    \/ EnhanceReturn
    \/ ProcessVideoReturn
    \/ NewRun

SpecRuns == InitRuns /\ [][NextRuns]_vars

----------------------------------------------------------------------------
(* _segment_products called on a State of its own: any ascending frame     *)
(* list at half-second positions and any one or two products.              *)

ProbeFps == 2 * FpsDen

ProbeFrames(S) ==
    LET RECURSIVE Build(_)
        Build(n) == IF n > MaxProbeFrames THEN <<>>
                    ELSE (IF n \in S
                          THEN <<FrameRecord(ExtractVideoId(UrlWatch), n, ProbeFps)>>
                          ELSE <<>>) \o Build(n + 1)
    IN Build(0)

ProbeProduct(n) ==
    ProductInfo(NamePhone, 9, Text("d", 1), Timestamp(n, ProbeFps))

InitSegment ==
    /\ pc = "segment_products"
    /\ i = 1
    /\ url = UrlWatch
    /\ video_id = ExtractVideoId(UrlWatch)
    /\ videoFile = TRUE
    /\ store = {ExtractVideoId(UrlWatch)}
    /\ fetches = <<>>
    /\ run = 1
    /\ written = <<>>
    /\ fps = ProbeFps
    /\ frame_count = MaxProbeFrames + 1
    /\ frame_interval = 1
    /\ \E S \in SUBSET (0..MaxProbeFrames) : frames = ProbeFrames(S)
    /\ \E a, b \in 0..(MaxProbeFrames + 2) :
          products \in {<<ProbeProduct(a)>>, <<ProbeProduct(a), ProbeProduct(b)>>}
    /\ error = None
    /\ result = NoResult
    /\ response = NoResult
    /\ calls = 0
    /\ entered = SubSeq(StageOrder, 1, 4)
    /\ returned = SubSeq(StageOrder, 1, 3)
    /\ errorLog = <<>>
    /\ snap = <<>>
    /\ responses = <<>>

NextSegment ==
    \/ SegmentProduct
    \/ SegmentRaise
    \/ SegmentReturn

SpecSegment == InitSegment /\ [][NextSegment]_vars

----------------------------------------------------------------------------
(* Properties *)

Range(q) == {q[k] : k \in 1..Len(q)}
Prefix(q, n) == SubSeq(q, 1, n)
Finished(n) == n \in Range(returned)
Raised(msg) == msg \in Range(errorLog)

(* C1: once a stage has set state["error"], every later stage does no     *)
(* work: no collaborator call, and frames and products stay as they were   *)
(* when the error was set.                                                 *)
C1_NoWorkAfterError ==
    snap # <<>> =>
        /\ frames = snap[1].frames
        /\ products = snap[1].products
        /\ calls = snap[1].calls

(* C2: the error process_video returns is the one the first failing stage *)
(* wrote; state["error"] is written at most once per run.                  *)
C2_FirstErrorKept ==
    /\ Len(errorLog) <= 1
    /\ errorLog # <<>> => error = errorLog[1]
    /\ (pc = "returned" /\ errorLog # <<>>) =>
          ("error" \in DOMAIN result /\ result.error = errorLog[1])

(* C3: process_video returns {error} exactly when a stage of the run      *)
(* raised and {products, message} otherwise, never products with an error, *)
(* and the count in the message is the length of the returned list; the    *)
(* handler reports success exactly for the second shape.                   *)
C3_ResultShape ==
    pc = "returned" =>
        /\ DOMAIN result \in {{"error"}, {"products", "message"}}
        /\ (errorLog # <<>>) <=> (DOMAIN result = {"error"})
        /\ "products" \in DOMAIN result =>
              /\ result.products = products
              /\ result.message = Len(result.products)
        /\ response.success <=> (errorLog = <<>>)
        /\ ~response.success => (response.products = <<>> /\ Truthy(response.error))
        /\ response.success =>
              (response.products = products /\ response.message = Len(products))

C3_Witness ==
    /\ pc = "returned"
    /\ errorLog # <<>>
    /\ products # <<>>
    /\ DOMAIN result = {"error"}

(* C4: the stages are entered in the fixed order, each at most once, a    *)
(* stage is entered only after the one before it has returned, having      *)
(* gone through all its items unless it raised, and nothing goes back.     *)
C4_StageOrder ==
    /\ Len(entered) <= Len(StageOrder)
    /\ entered = Prefix(StageOrder, Len(entered))
    /\ returned = Prefix(StageOrder, Len(returned))
    /\ Len(entered) - Len(returned) \in {0, 1}
    /\ pc \in Range(StageOrder) =>
          (Len(entered) = Len(returned) + 1 /\ entered[Len(entered)] = pc)
    /\ pc \in {"END", "returned"} => returned = StageOrder
    /\ (Finished("identify_products") /\ ~Raised("Product identification failed")) =>
          Len(responses) = Len(frames)
    /\ (Finished("segment_products") /\ ~Raised("Product segmentation failed")) =>
          \A j \in 1..Len(products) : products[j].segmented_image_path # NoPath
                                       \/ FindFrame(frames, products[j]) = 0

C4_Witness ==
    /\ pc = "returned"
    /\ entered = StageOrder
    /\ Len(frames) >= 2
    /\ Len(products) >= 2
    /\ errorLog = <<>>

(* C5: in the end-to-end scenario, when exactly one sampled frame yields  *)
(* the one detection, process_video returns exactly one product, with a    *)
(* segmented path and exactly three enhanced images.                       *)
DetectingFrames == {k \in 1..Len(responses) : responses[k] = RGood}

C5_EndToEnd ==
    (/\ pc = "returned"
     /\ fps = E2EFps
     /\ frame_count = E2EFrameCount
     /\ errorLog = <<>>
     /\ Range(responses) \subseteq {RNone, RGood}
     /\ Cardinality(DetectingFrames) = 1)
    => /\ DOMAIN result = {"products", "message"}
       /\ Len(result.products) = 1
       /\ result.products[1].segmented_image_path # NoPath
       /\ Len(result.products[1].enhanced_images) = 3

C5_Witness ==
    /\ pc = "returned"
    /\ fps = E2EFps
    /\ frame_count = E2EFrameCount
    /\ Len(frames) = 5
    /\ Len(responses) = 5
    /\ DetectingFrames = {3}
    /\ Len(result.products) = 1

(* C6: a candidate of a well-formed detection response becomes a product  *)
(* exactly when its is_good_frame is true and its confidence is strictly   *)
(* above 0.5.                                                              *)
Retained(c) ==
    /\ "is_good_frame" \in c.keys
    /\ c.is_good_frame = TRUE
    /\ "confidence" \in c.keys
    /\ c.confidence > 5

WellFormed(r) ==
    /\ r.kind = "object"
    /\ \A k \in 1..Len(r.products) :
          {"name", "description"} \subseteq r.products[k].keys

C6_RetainedIffGoodAndAboveHalf ==
    \A k \in 1..Len(responses) :
        WellFormed(responses[k]) =>
            LET kept == SelectSeq(responses[k].products, Retained)
                refs == frames[k].products_detected
            IN /\ Len(refs) = Len(kept)
               /\ \A j \in 1..Len(refs) :
                     /\ products[refs[j]].name = kept[j].name
                     /\ products[refs[j]].confidence = kept[j].confidence
                     /\ products[refs[j]].timestamp = frames[k].timestamp

C6_Witness ==
    \E k, m \in 1..Len(responses) :
        /\ responses[k] = RRejected
        /\ frames[k].products_detected = <<>>
        /\ responses[m] = JsonObject(<<CGood9, CGood6>>)
        /\ Len(frames[m].products_detected) = 2

(* C7: the stride of _extract_frames is round(frameRate * 2.0) and is     *)
(* never below 1.                                                          *)
FrameIntervalRounded(f) == (2 * SampleSeconds * f + FpsDen) \div (2 * FpsDen)

C7_StrideRounded ==
    frame_interval # NotRead =>
        /\ frame_interval = FrameIntervalRounded(fps)
        /\ frame_interval >= 1

Qualifying(p) ==
    {k \in 1..Len(frames) :
        LET a == frames[k].timestamp
            b == p.timestamp
        IN  /\ a.num * b.den - b.num * a.den < a.den * b.den
            /\ b.num * a.den - a.num * b.den < a.den * b.den}

Segmented ==
    IF pc = "segment_products" THEN 1..(i - 1)
    ELSE IF Finished("segment_products") /\ ~Raised("Product segmentation failed")
         THEN 1..Len(products)
         ELSE {}

C9_FirstFrameWithinTolerance ==
    /\ \A j \in Segmented :
          LET Q == Qualifying(products[j]) IN
          IF Q = {}
          THEN /\ products[j].segmented_image_path = NoPath
               /\ products[j].frame_image_path = NoPath
          ELSE /\ products[j].segmented_image_path # NoPath
               /\ \E k \in Q :
                     /\ \A m \in Q : k <= m
                     /\ products[j].frame_image_path =
                            <<"frame", video_id, 0, frames[k].frame_number>>
    /\ (\A j \in 1..Len(products) : Qualifying(products[j]) = {}) =>
          ~Raised("Product segmentation failed")

C9_Witness ==
    /\ Finished("segment_products")
    /\ Len(products) = 2
    /\ Segmented = {1, 2}
    /\ Cardinality(Qualifying(products[1])) >= 2
    /\ products[1].frame_image_path # NoPath
    /\ Qualifying(products[2]) = {}
    /\ products[2].segmented_image_path = NoPath
    /\ error = None

(* C10: when the enhancement stage has finished, whatever the             *)
(* collaborators did, a product with a segmented path has exactly three    *)
(* enhanced images in style order 1, 2, 3 and any other product has none.  *)
EnhancedAsClaimed ==
    \A j \in 1..Len(products) :
        IF products[j].segmented_image_path # NoPath
        THEN /\ Len(products[j].enhanced_images) = 3
             /\ \A st \in 1..3 :
                   /\ products[j].enhanced_images[st][1] = "enhanced"
                   /\ products[j].enhanced_images[st][3] = st
        ELSE products[j].enhanced_images = <<>>

IsFallbackProduct(p) == p.name = <<"D", " ", "P">>

C11_FallbackOnlyOnParseFailure ==
    \A k \in 1..Len(responses) :
        LET r == responses[k]
            refs == frames[k].products_detected
        IN  /\ r.kind # "text" =>
                  \A j \in 1..Len(refs) : ~IsFallbackProduct(products[refs[j]])
            /\ r.kind = "text" =>
                  /\ Len(refs) <= 1
                  /\ \A j \in 1..Len(refs) :
                        LET p == products[refs[j]] IN
                        /\ IsFallbackProduct(p)
                        /\ p.confidence = 6
                        /\ p.description.id = r.text.id
                        /\ p.description.len =
                              (IF r.text.len < 200 THEN r.text.len ELSE 200)
                        /\ p.timestamp = frames[k].timestamp

C11_Witness ==
    \E k \in 1..Len(responses) :
        /\ responses[k].kind = "text"
        /\ responses[k].text.len > 200
        /\ Len(frames[k].products_detected) = 1
        /\ products[frames[k].products_detected[1]].description.len = 200

(* C12: _extract_video_id maps a watch link (optional &params after the   *)
(* identifier), a shorts link (optional ?query) and a youtu.be link to the *)
(* identifier, and any other URL to 'unknown'; an unmatched URL sets no    *)
(* error by itself.                                                        *)
C12_VideoIdOfUrl ==
    Finished("extract_video") =>
        /\ \A id \in Ids :
              /\ \A p \in Params : url = WatchUrl(id, p) => video_id = id
              /\ \A q \in Queries : url = ShortsUrl(id, q) => video_id = id
              /\ \A q \in Queries : url = ShortLinkUrl(id, q) => video_id = id
        /\ url \in UnmatchedUrls =>
              /\ video_id = <<"unknown">>
              /\ errorLog # <<>> =>
                    \E k \in 1..Len(fetches) : ~fetches[k].ok

C12_Witness ==
    /\ Finished("extract_video")
    /\ url = WatchUrl(<<"a", "b">>, <<"&", "t=5">>)
    /\ video_id = <<"a", "b">>

(* C13: a run calls the fetcher at most once, and only when no file       *)
(* exists for its videoId; once a fetch for a videoId has succeeded, no    *)
(* later run whose URL maps to that videoId fetches again.                 *)
FetchedOncePerRun ==
    \A k, m \in 1..Len(fetches) : fetches[k].run = fetches[m].run => k = m

NoFetchAfterSuccess ==
    \A k, m \in 1..Len(fetches) :
        (k < m /\ fetches[k].ok) => fetches[k].video_id # fetches[m].video_id

FetchStep ==
    /\ fetches' # fetches =>
          /\ ~(ExtractVideoId(url) \in store)
          /\ Len(fetches') = Len(fetches) + 1
    /\ (ExtractVideoId(url) \in store /\ Finished("extract_video")') =>
          (fetches' = fetches /\ errorLog' = <<>>)
    /\ FetchedOncePerRun'
    /\ NoFetchAfterSuccess'

C13_FetchIdempotent == [][FetchStep]_vars

C13_Witness ==
    /\ run = 3
    /\ pc = "returned"
    /\ url = UrlOtherB
    /\ fetches = <<[run |-> 1, video_id |-> <<"unknown">>, ok |-> TRUE]>>

(* C14: a detection response that does not have the expected structure    *)
(* (text that is not JSON, JSON that is not an object, an accepted         *)
(* candidate without name or description) never fails the run: the stage   *)
(* sets no error and goes on to the next frame.                            *)
NonConforming(r) ==
    \/ r.kind = "text"
    \/ r.kind = "array"
    \/ /\ r.kind = "object"
       /\ \E k \in 1..Len(r.products) :
             /\ Retained(r.products[k])
             /\ ~({"name", "description"} \subseteq r.products[k].keys)

NonConformingStep ==
    (/\ Len(responses') = Len(responses) + 1
     /\ NonConforming(responses'[Len(responses')]))
    => /\ errorLog' = errorLog
       /\ error' = error
       /\ pc' = "identify_products"
       /\ i' = i + 1

C14_NonConformingTolerated == [][NonConformingStep]_vars

(* C15: the frame _segment_products selects for a product is the frame    *)
(* during whose detection the product was created, and no product that     *)
(* the stage has gone through is left without a frame.                     *)
C15_OriginatingFrame ==
    /\ \A j \in 1..Len(products) :
          products[j].segmented_image_path # NoPath =>
              \E k \in 1..Len(frames) :
                  /\ j \in Range(frames[k].products_detected)
                  /\ products[j].frame_image_path =
                         <<"frame", video_id, 0, frames[k].frame_number>>
    /\ \A j \in Segmented :
          /\ products[j].segmented_image_path # NoPath
          /\ products[j].frame_image_path # NoPath

C15_Witness ==
    /\ Finished("segment_products")
    /\ fps = 9
    /\ Len(frames) >= 2
    /\ Segmented = 1..Len(products)
    /\ \E j \in 1..Len(products) :
          /\ j \in Range(frames[2].products_detected)
          /\ products[j].frame_image_path =
                 <<"frame", video_id, 0, frames[2].frame_number>>

(* C16: within one run no path of the output directory is written more    *)
(* than once.                                                              *)
C16_NoPathWrittenTwice ==
    \A a, b \in 1..Len(written) : written[a] = written[b] => a = b

(* C17: state["products"] grows only by appends at its end, only during   *)
(* _identify_products, in frame order and within a frame in response       *)
(* order; afterwards no stage adds, removes or reorders products, and the  *)
(* name, confidence, description and timestamp of a product never change.  *)
Core(p) ==
    [name |-> p.name, confidence |-> p.confidence,
     description |-> p.description, timestamp |-> p.timestamp]

CoreOfCandidate(c, ts) ==
    [name |-> c.name, confidence |-> c.confidence,
     description |-> c.description, timestamp |-> ts]

ProductsStep ==
    /\ Len(products') >= Len(products)
    /\ \A j \in 1..Len(products) : Core(products'[j]) = Core(products[j])
    /\ Len(products') > Len(products) =>
          /\ pc = "identify_products"
          /\ Len(responses') = Len(responses) + 1
          /\ LET r == responses'[Len(responses')]
                 kept == SelectSeq(r.products, Retained)
                 new == Len(products') - Len(products)
             IN r.kind = "object" =>
                  /\ new <= Len(kept)
                  /\ \A j \in 1..new :
                        Core(products'[Len(products) + j]) =
                            CoreOfCandidate(kept[j], frames[i].timestamp)
    /\ Finished("identify_products") => Len(products') = Len(products)
    /\ \A j \in 1..(Len(products') - 1) :
          products'[j].timestamp.num * products'[j+1].timestamp.den
              <= products'[j+1].timestamp.num * products'[j].timestamp.den

C17_ProductsAppendOnly == [][ProductsStep]_vars

C17_Witness ==
    /\ pc = "returned"
    /\ Len(frames) >= 2
    /\ Len(products) >= 3
    /\ frames[1].products_detected # <<>>
    /\ frames[2].products_detected # <<>>
    /\ \A j \in 1..Len(products) : Len(products[j].enhanced_images) = 3

(* C18: whenever _extract_video returns without setting the error,        *)
(* state["video_id"] is a non-empty string.                                *)
C18_VideoIdNonEmpty ==
    (Finished("extract_video") /\ errorLog = <<>>) => video_id # <<>>

(* C19: in every state of a run each product has no or exactly three      *)
(* enhanced images, and a product with enhanced images has a segmented     *)
(* path and a frame path.                                                  *)
C19_EnhancedNoneOrThree ==
    \A j \in 1..Len(products) :
        /\ Len(products[j].enhanced_images) \in {0, 3}
        /\ products[j].enhanced_images # <<>> =>
              /\ products[j].segmented_image_path # NoPath
              /\ products[j].frame_image_path # NoPath

C19_Witness ==
    /\ pc = "returned"
    /\ Raised("Product enhancement failed")
    /\ \E j, k \in 1..Len(products) :
          /\ Len(products[j].enhanced_images) = 3
          /\ products[k].segmented_image_path # NoPath
          /\ products[k].enhanced_images = <<>>
          /\ \E a \in 1..Len(written) :
                written[a] = <<"enhanced", products[k].segmented_image_path[2], 2,
                               products[k].segmented_image_path[4]>>

(* C20: in every state each product is referenced by exactly one frame's  *)
(* products_detected list, that frame has the product's timestamp, and     *)
(* the lists of all frames, in frame order, add up to state["products"].   *)
RECURSIVE DetectedUpTo(_)
DetectedUpTo(k) ==
    IF k = 0 THEN <<>> ELSE DetectedUpTo(k - 1) \o frames[k].products_detected

C20_FramesReferenceProducts ==
    /\ DetectedUpTo(Len(frames)) = [j \in 1..Len(products) |-> j]
    /\ \A j \in 1..Len(products) :
          Cardinality({k \in 1..Len(frames) :
                         j \in Range(frames[k].products_detected)}) = 1
    /\ \A k \in 1..Len(frames) :
          \A j \in Range(frames[k].products_detected) :
              products[j].timestamp = frames[k].timestamp

C20_Witness ==
    /\ Raised("Product identification failed")
    /\ Len(responses) = 2
    /\ Len(frames) = 3
    /\ Len(frames[1].products_detected) = 2
    /\ Len(frames[2].products_detected) = 1
    /\ Len(products) = 3

====
